---- MODULE Spec2Model ----
(***************************************************************************)
(* A model of src/src/chain.rs: blocks bound to their predecessor by a     *)
(* SHA-256 fingerprint, and a Blockchain that grows by add_block and may   *)
(* be swapped for a competing chain by replace.                            *)
(*                                                                         *)
(* A u32 is held exactly, as the pair <<hi, lo>> of base-10^5 limbs        *)
(* (value = hi * 10^5 + lo), so that u32::MAX = 4294967295 and the         *)
(* overflow of `+ 1` and `+ 10` are the real ones.  A String is a string.  *)
(***************************************************************************)
EXTENDS Integers, Sequences, FiniteSets, TLC

VARIABLES
    blocks,           \* Blockchain.blocks : Vec<Block>
    overflow_checks,  \* build profile: TRUE = debug (overflow panics), FALSE = release (wraps)
    call,             \* the last call made on the chain, with its argument
    pre,              \* Blockchain.blocks as it was when that call was made
    result,           \* what the call returned: "Ok", "InvalidBlock", "InvalidChain"; "panic" if it unwound
    stdout            \* the lines the call printed

vars == <<blocks, overflow_checks, call, pre, result, stdout>>

(***************************************************************************)
(* Bounds of the model.                                                    *)
(***************************************************************************)
\* add_block is not called on a chain that already holds MaxLen blocks
MaxLen == 3
\* replace is offered candidate chains of at most MaxCandLen blocks
MaxCandLen == 4

(***************************************************************************)
(* u32                                                                     *)
(***************************************************************************)
Limb == 10^5

\* u32::MAX = 42949 67295
U32_MAX == <<42949, 67295>>

U32(n) == <<n \div Limb, n % Limb>>

\* a + k without bound, k < Limb, as limbs (hi may exceed u32::MAX's)
plain_add(a, k) ==
    IF a[2] + k >= Limb THEN <<a[1] + 1, a[2] + k - Limb>> ELSE <<a[1], a[2] + k>>

limbs_gt(a, b) == a[1] > b[1] \/ (a[1] = b[1] /\ a[2] > b[2])

\* `a + k` overflows the u32
add_overflows(a, k) == limbs_gt(plain_add(a, k), U32_MAX)

\* `a + k` as the release build computes it: modulo 2^32 = 42949 67296
wrapping_add(a, k) ==
    LET s == plain_add(a, k)
    IN  IF limbs_gt(s, U32_MAX)
        THEN <<0, (s[1] - U32_MAX[1]) * Limb + s[2] - (U32_MAX[2] + 1)>>
        ELSE s

\* `a + k` panics ("attempt to add with overflow") in a build with overflow checks
add_panics(a, k) == overflow_checks /\ add_overflows(a, k)

Pad5(n) ==
    CASE n < 10    -> "0000" \o ToString(n)
      [] n < 100   -> "000" \o ToString(n)
      [] n < 1000  -> "00" \o ToString(n)
      [] n < 10000 -> "0" \o ToString(n)
      [] OTHER     -> ToString(n)

\* format!("{}", n) of a u32: its decimal digits
Display(a) == IF a[1] = 0 THEN ToString(a[2]) ELSE ToString(a[1]) \o Pad5(a[2])

(***************************************************************************)
(* calc_hash                                                               *)
(***************************************************************************)
\* Sha256 of a record, rendered as hex.  The digest is taken to be
\* injective on the record: it is written as the record between two marks
\* that no input string of the model contains.
Sha256_hex(record) == "<" \o record \o ">"

\* calc_hash with the timestamp left out of the record
calc_hash_without_timestamp(index, timestamp, prev_hash, payload) ==
    Sha256_hex(Display(index) \o prev_hash \o payload)

calc_hash(index, timestamp, prev_hash, payload) ==
    Sha256_hex(Display(index) \o Display(timestamp) \o prev_hash \o payload)

\* the fingerprint re-derived from a block's four fields
block_hash(b) == calc_hash(b.index, b.timestamp, b.prev_hash, b.payload)

(***************************************************************************)
(* Block                                                                   *)
(***************************************************************************)
Block(index, timestamp, hash, prev_hash, payload) ==
    [index |-> index, timestamp |-> timestamp, hash |-> hash,
     prev_hash |-> prev_hash, payload |-> payload]

\* Block::new with the payload left out of the block
Block_new_without_payload(prev_block, payload) ==
    LET index     == wrapping_add(prev_block.index, 1)
        timestamp == wrapping_add(prev_block.timestamp, 10)
        prev_hash == prev_block.hash
    IN  Block(index, timestamp, calc_hash(index, timestamp, prev_hash, ""),
              prev_hash, "")

\* Block::new with the timestamp not advanced
Block_new_same_timestamp(prev_block, payload) ==
    LET index     == wrapping_add(prev_block.index, 1)
        timestamp == prev_block.timestamp
        prev_hash == prev_block.hash
    IN  Block(index, timestamp, calc_hash(index, timestamp, prev_hash, payload),
              prev_hash, payload)

\* Block::new, where its additions do not panic
Block_new(prev_block, payload) ==
    LET index     == wrapping_add(prev_block.index, 1)
        timestamp == wrapping_add(prev_block.timestamp, 10)
        prev_hash == prev_block.hash
    IN  Block(index, timestamp, calc_hash(index, timestamp, prev_hash, payload),
              prev_hash, payload)

\* Block::new unwinds at `prev_block.index + 1` or `prev_block.timestamp + 10`
Block_new_panics(prev_block) ==
    add_panics(prev_block.index, 1) \/ add_panics(prev_block.timestamp, 10)

(***************************************************************************)
(* is_block_valid                                                          *)
(***************************************************************************)
is_block_valid(prev_block, new_block) ==
    IF wrapping_add(prev_block.index, 1) # new_block.index THEN FALSE
    ELSE IF prev_block.hash # new_block.prev_hash THEN FALSE
    ELSE IF block_hash(new_block) # new_block.hash THEN FALSE
    ELSE TRUE

\* is_block_valid unwinds at `prev_block.index + 1`
is_block_valid_panics(prev_block) == add_panics(prev_block.index, 1)

(***************************************************************************)
(* is_chain_valid                                                          *)
(***************************************************************************)
\* The `for new_block in new_chain.blocks.iter()` loop, at element i with
\* the loop's variables prev_block and index.  Its outcome is the value
\* returned ("true"/"false"), or "panic", and the lines printed.  The code
\* assigns prev_block once, before the loop, and `continue` skips the
\* `index += 1` at the loop's end.
RECURSIVE chain_walk(_, _, _, _)
chain_walk(new_blocks, prev_block, i, index) ==
    IF i > Len(new_blocks) THEN [ret |-> "true", out |-> <<>>]
    ELSE LET new_block == new_blocks[i]
         IN  IF index > 0
             THEN IF is_block_valid_panics(prev_block)
                  THEN [ret |-> "panic", out |-> <<>>]
                  ELSE IF is_block_valid(prev_block, new_block)
                  THEN chain_walk(new_blocks, prev_block, i + 1, index)
                  ELSE [ret |-> "false",
                        out |-> <<"Invalid block detected with index "
                                  \o Display(new_block.index) \o "!">>]
             ELSE chain_walk(new_blocks, prev_block, i + 1, index + 1)

\* is_chain_valid comparing the first blocks' stored fingerprints
is_chain_valid_stored_origin(current_blocks, new_blocks) ==
    IF Len(current_blocks) = 0
    THEN [ret |-> "false", out |-> <<"Could not find genesis block">>]
    ELSE IF Len(new_blocks) = 0
    THEN [ret |-> "false", out |-> <<"Missing new chain origin!">>]
    ELSE IF current_blocks[1].hash # new_blocks[1].hash
    THEN [ret |-> "false", out |-> <<"Genesis block mismatch!">>]
    ELSE chain_walk(new_blocks, new_blocks[1], 1, 0)

is_chain_valid(current_blocks, new_blocks) ==
    IF Len(current_blocks) = 0
    THEN [ret |-> "false", out |-> <<"Could not find genesis block">>]
    ELSE IF Len(new_blocks) = 0
    THEN [ret |-> "false", out |-> <<"Missing new chain origin!">>]
    ELSE LET genesis_block      == current_blocks[1]
             new_origin         == new_blocks[1]
             genesis_block_hash == block_hash(genesis_block)
             new_origin_hash    == block_hash(new_origin)
         IN  IF genesis_block_hash # new_origin_hash
             THEN [ret |-> "false", out |-> <<"Genesis block mismatch!">>]
             ELSE chain_walk(new_blocks, new_origin, 1, 0)

(***************************************************************************)
(* Inputs: genesis blocks, payloads and candidate chains                   *)
(***************************************************************************)
\* the genesis of run(): fingerprint left empty
RunGenesis == Block(U32(0), U32(0), "", "", "Genesis block baby!")

\* a genesis whose stored fingerprint is the one its fields give; its
\* position and timestamp print as "42949" "672957"
HashedGenesis ==
    Block(U32(42949), U32(672957), calc_hash(U32(42949), U32(672957), "", "g"), "", "g")

\* a genesis at the last position a u32 holds, its timestamp within one
\* step of u32::MAX
EdgeGenesis == Block(U32_MAX, <<U32_MAX[1], U32_MAX[2] - 5>>, "", "", "g")

GenesisBlocks == {RunGenesis, HashedGenesis, EdgeGenesis}

Payloads == {"Second block baby!", "p"}

\* `chain` with n more blocks, each built on the one before by Block::new
RECURSIVE Extend(_, _)
Extend(chain, n) ==
    IF n = 0 THEN chain
    ELSE Extend(Append(chain, Block_new(chain[Len(chain)], "p")), n - 1)

\* Blocks a competing chain may carry after `chain` that Block::new on its
\* last block would not have built.
Alterations(chain) ==
    LET last   == chain[Len(chain)]
        honest == Block_new(last, "p")
        relink == [honest EXCEPT !.prev_hash = "?"]
        early  == [honest EXCEPT !.timestamp = U32(0)]
        stay   == [honest EXCEPT !.index = last.index]
    IN  { \* built on the first block of the chain
          Block_new(chain[1], "q"),
          \* previous_fingerprint is not the predecessor's, own fingerprint re-derived
          [relink EXCEPT !.hash = block_hash(relink)],
          \* payload altered after the fingerprint was taken
          [honest EXCEPT !.payload = "tampered"],
          \* timestamp below the predecessor's, own fingerprint re-derived
          [early EXCEPT !.hash = block_hash(early)],
          \* position not advanced, own fingerprint re-derived
          [stay EXCEPT !.hash = block_hash(stay)] }

\* the chains of at most MaxCandLen blocks built on `origin` by Block::new
Forks(origin) == { Extend(<<origin>>, n) : n \in 0 .. MaxCandLen - 1 }

\* the same, with one block of Alterations in them
AlteredForks(origin) ==
    UNION { UNION { { Extend(Append(Extend(<<origin>>, k), a), n) :
                      n \in 0 .. MaxCandLen - 2 - k } :
                    a \in Alterations(Extend(<<origin>>, k)) } :
            k \in 0 .. MaxCandLen - 2 }

\* `origin` with another stored fingerprint
Restamp(origin) ==
    [origin EXCEPT !.hash = IF origin.hash = block_hash(origin) THEN "" ELSE block_hash(origin)]

\* `origin` with a position and a timestamp that print as the same digits
\* ("42949" "672957" and "4294967295" "7"), where the model has such a pair
Resplit(origin) ==
    IF origin.index = U32(42949) /\ origin.timestamp = U32(672957)
    THEN [origin EXCEPT !.index = U32_MAX, !.timestamp = U32(7)]
    ELSE IF origin.index = U32_MAX /\ origin.timestamp = U32(7)
    THEN [origin EXCEPT !.index = U32(42949), !.timestamp = U32(672957)]
    ELSE origin

\* `origin` with another payload
Foreign(origin) == [origin EXCEPT !.payload = "other genesis"]

\* The chains offered to replace on a chain whose first block is
\* `genesis_block`: none, forks of that block with and without an altered
\* block, and forks of blocks that differ from it in one respect.
Candidates(genesis_block) ==
    {<<>>} \cup
    IF MaxCandLen = 0 THEN {}
    ELSE Forks(genesis_block) \cup AlteredForks(genesis_block)
         \cup Forks(Restamp(genesis_block))
         \cup Forks(Resplit(genesis_block))
         \cup Forks(Foreign(genesis_block))

(***************************************************************************)
(* Blockchain                                                              *)
(***************************************************************************)
\* Blockchain::new re-deriving the fingerprint of the block it is given
Blockchain_new_rehashed(genesis_block) ==
    <<[genesis_block EXCEPT !.hash = block_hash(genesis_block)]>>

\* Blockchain::new(genesis_block)
Blockchain_new(genesis_block) == <<genesis_block>>

Init ==
    /\ \E genesis \in GenesisBlocks :
          /\ blocks = Blockchain_new(genesis)
          /\ call = [fn |-> "new", genesis_block |-> genesis]
    /\ overflow_checks \in BOOLEAN
    /\ pre = <<>>
    /\ result = "Ok"
    /\ stdout = <<>>

\* the process is running: no call has unwound
Running == result # "panic"

\* add_block putting the new block first
add_block_at_front(payload) ==
    /\ Running
    /\ 0 < Len(blocks)
    /\ Len(blocks) < MaxLen
    /\ ~ Block_new_panics(blocks[Len(blocks)])
    /\ call' = [fn |-> "add_block", payload |-> payload]
    /\ pre' = blocks
    /\ stdout' = <<"Adding block to chain">>
    /\ blocks' = <<Block_new(blocks[Len(blocks)], payload)>> \o blocks
    /\ result' = "Ok"
    /\ UNCHANGED overflow_checks

\* Blockchain::add_block(payload)
add_block(payload) ==
    /\ Running
    /\ Len(blocks) < MaxLen
    /\ call' = [fn |-> "add_block", payload |-> payload]
    /\ pre' = blocks
    /\ UNCHANGED overflow_checks
    /\ IF Len(blocks) = 0
       THEN /\ stdout' = <<"Could not find previous block to compare">>
            /\ result' = "InvalidBlock"
            /\ UNCHANGED blocks
       ELSE LET prev_block == blocks[Len(blocks)]
                new_block  == Block_new(prev_block, payload)
            IN  IF Block_new_panics(prev_block) \/ is_block_valid_panics(prev_block)
                THEN /\ stdout' = <<>>
                     /\ result' = "panic"
                     /\ UNCHANGED blocks
                ELSE IF is_block_valid(prev_block, new_block)
                THEN /\ stdout' = <<"Adding block to chain">>
                     /\ blocks' = Append(blocks, new_block)
                     /\ result' = "Ok"
                ELSE /\ stdout' = <<"Block was invalid">>
                     /\ result' = "InvalidBlock"
                     /\ UNCHANGED blocks

\* replace taking the candidate's blocks before the lengths are compared
replace_swaps_first(new_chain) ==
    /\ Running
    /\ call' = [fn |-> "replace", new_chain |-> new_chain]
    /\ pre' = blocks
    /\ UNCHANGED overflow_checks
    /\ LET valid == is_chain_valid(blocks, new_chain)
       IN  IF valid.ret = "panic"
           THEN /\ stdout' = valid.out
                /\ result' = "panic"
                /\ UNCHANGED blocks
           ELSE IF valid.ret = "true"
           THEN /\ blocks' = new_chain
                /\ IF Len(new_chain) > Len(blocks)
                   THEN /\ stdout' = <<"Valid chain. Replacing current chain with new one.">>
                        /\ result' = "Ok"
                   ELSE /\ stdout' = <<"Invalid replacement chain">>
                        /\ result' = "InvalidChain"
           ELSE /\ stdout' = valid.out \o <<"Invalid replacement chain">>
                /\ result' = "InvalidChain"
                /\ UNCHANGED blocks

\* replace comparing the lengths only
replace_longest_wins(new_chain) ==
    /\ Running
    /\ call' = [fn |-> "replace", new_chain |-> new_chain]
    /\ pre' = blocks
    /\ UNCHANGED overflow_checks
    /\ IF Len(new_chain) > Len(blocks)
       THEN /\ stdout' = <<"Valid chain. Replacing current chain with new one.">>
            /\ blocks' = new_chain
            /\ result' = "Ok"
       ELSE /\ stdout' = <<"Invalid replacement chain">>
            /\ result' = "InvalidChain"
            /\ UNCHANGED blocks

\* replace adopting a valid candidate of any other length
replace_other_length(new_chain) ==
    /\ Running
    /\ call' = [fn |-> "replace", new_chain |-> new_chain]
    /\ pre' = blocks
    /\ UNCHANGED overflow_checks
    /\ LET valid == is_chain_valid(blocks, new_chain)
       IN  IF valid.ret = "panic"
           THEN /\ stdout' = valid.out
                /\ result' = "panic"
                /\ UNCHANGED blocks
           ELSE IF valid.ret = "true" /\ Len(new_chain) # Len(blocks)
           THEN /\ stdout' = valid.out \o <<"Valid chain. Replacing current chain with new one.">>
                /\ blocks' = new_chain
                /\ result' = "Ok"
           ELSE /\ stdout' = valid.out \o <<"Invalid replacement chain">>
                /\ result' = "InvalidChain"
                /\ UNCHANGED blocks

\* replace adopting whatever it is offered
replace_unchecked(new_chain) ==
    /\ Running
    /\ call' = [fn |-> "replace", new_chain |-> new_chain]
    /\ pre' = blocks
    /\ stdout' = <<"Valid chain. Replacing current chain with new one.">>
    /\ blocks' = new_chain
    /\ result' = "Ok"
    /\ UNCHANGED overflow_checks

\* Blockchain::replace(new_chain)
replace(new_chain) ==
    /\ Running
    /\ call' = [fn |-> "replace", new_chain |-> new_chain]
    /\ pre' = blocks
    /\ UNCHANGED overflow_checks
    /\ LET local_len == Len(blocks)
           new_len   == Len(new_chain)
           valid     == is_chain_valid(blocks, new_chain)
       IN  IF valid.ret = "panic"
           THEN /\ stdout' = valid.out
                /\ result' = "panic"
                /\ UNCHANGED blocks
           ELSE IF valid.ret = "true" /\ new_len > local_len
           THEN /\ stdout' = valid.out \o <<"Valid chain. Replacing current chain with new one.">>
                /\ blocks' = new_chain
                /\ result' = "Ok"
           ELSE /\ stdout' = valid.out \o <<"Invalid replacement chain">>
                /\ result' = "InvalidChain"
                /\ UNCHANGED blocks

Next ==
    \/ \E payload \in Payloads : add_block(payload)
    \/ \E new_chain \in Candidates(blocks[1]) : replace(new_chain)

Spec == Init /\ [][Next]_vars

(***************************************************************************)
(* Notions the properties are stated with                                  *)
(***************************************************************************)
IsReplace == call.fn = "replace"
IsAddBlock == call.fn = "add_block"

\* the candidate the last replace was offered
Offered == call.new_chain

\* every block of `chain` after the first passes is_block_valid against
\* the block right before it in `chain`
AdjacentPairsValid(chain) ==
    \A i \in 2 .. Len(chain) : is_block_valid(chain[i - 1], chain[i])

\* the two chains have first blocks, with the same re-derived fingerprint
SameOrigin(a, b) ==
    /\ Len(a) > 0
    /\ Len(b) > 0
    /\ block_hash(a[1]) = block_hash(b[1])

\* C1: is_chain_valid(reference, candidate) returns true exactly when both
\* are non-empty, the re-derived fingerprints of their first blocks are
\* equal, and every block of the candidate after the first is a valid
\* successor of the block right before it in the candidate.
C1_ChainValidIffAdjacentPairsValid ==
    IsReplace =>
        ( is_chain_valid(pre, Offered).ret = "true"
          <=> (SameOrigin(pre, Offered) /\ AdjacentPairsValid(Offered)) )

\* C2: a candidate with the chain's origin, every adjacent pair of which
\* passes is_block_valid, and longer than the chain, is adopted by replace,
\* and the chain then has the candidate's length.
C2_ValidLongerChainAdopted ==
    ( /\ IsReplace
      /\ SameOrigin(pre, Offered)
      /\ AdjacentPairsValid(Offered)
      /\ Len(Offered) > Len(pre) )
    => (result = "Ok" /\ Len(blocks) = Len(Offered))

\* C3: every block of the held chain after the first has the position of
\* the block before it plus one, that block's stored fingerprint as its
\* previous fingerprint, and the fingerprint its own four fields give.
C3_HashLinkInvariant ==
    \A i \in 2 .. Len(blocks) :
        /\ blocks[i].index = plain_add(blocks[i - 1].index, 1)
        /\ blocks[i].prev_hash = blocks[i - 1].hash
        /\ blocks[i].hash = block_hash(blocks[i])

\* C4: replace adopts the candidate if and only if is_chain_valid holds of
\* it and it is longer than the chain; a candidate no longer than the
\* chain is rejected with InvalidChain; on success the chain is the
\* candidate.
C4_ReplaceLengthRule ==
    IsReplace =>
        /\ result = "Ok" <=> ( /\ is_chain_valid(pre, Offered).ret = "true"
                               /\ Len(Offered) > Len(pre) )
        /\ Len(Offered) <= Len(pre) => result = "InvalidChain"
        /\ result = "Ok" => blocks = Offered

\* C5: a call that returns InvalidChain or InvalidBlock leaves the chain as
\* it was, block for block and field for field; a call that returns Ok has
\* done all of its work (replace holds the candidate, add_block holds the
\* old blocks and the block built on the last of them); a call that
\* unwinds leaves the chain as it was.
C5_AllOrNothing ==
    /\ (IsReplace \/ IsAddBlock) /\ result \in {"InvalidChain", "InvalidBlock", "panic"}
         => blocks = pre
    /\ IsReplace /\ result = "Ok" => blocks = Offered
    /\ IsAddBlock /\ result = "Ok"
         => blocks = Append(pre, Block_new(pre[Len(pre)], call.payload))

\* a replace was refused a chain that passes is_chain_valid and is as long
\* as the chain held, and differs from it
C5_Witness ==
    /\ IsReplace
    /\ result = "InvalidChain"
    /\ is_chain_valid(pre, Offered).ret = "true"
    /\ Len(Offered) = Len(pre)
    /\ Offered # pre
    /\ blocks = pre

\* C6: a candidate whose first block's re-derived fingerprint differs from
\* that of the chain's first block is refused with InvalidChain whatever
\* its length, as an origin mismatch; and the origin mismatch is reported
\* for no other candidate, whatever the stored fingerprints are.
C6_OriginMismatchRejected ==
    IsReplace /\ Len(pre) > 0 /\ Len(Offered) > 0 =>
        /\ block_hash(Offered[1]) # block_hash(pre[1])
             => (result = "InvalidChain" /\ blocks = pre)
        /\ block_hash(Offered[1]) # block_hash(pre[1])
             <=> stdout = <<"Genesis block mismatch!", "Invalid replacement chain">>

\* a longer candidate was refused for its origin, the two first blocks
\* storing the same fingerprint
C6_Witness ==
    /\ IsReplace
    /\ Len(Offered) > Len(pre)
    /\ block_hash(Offered[1]) # block_hash(pre[1])
    /\ Offered[1].hash = pre[1].hash
    /\ result = "InvalidChain"

\* the candidate has exactly one block, its k-th, that is not a valid
\* successor of the block before it, and that block fails only by its
\* previous fingerprint
OneBrokenLink(chain, k) ==
    /\ k \in 2 .. Len(chain)
    /\ chain[k].prev_hash # chain[k - 1].hash
    /\ chain[k].index = wrapping_add(chain[k - 1].index, 1)
    /\ chain[k].hash = block_hash(chain[k])
    /\ \A i \in 2 .. Len(chain) : i # k => is_block_valid(chain[i - 1], chain[i])

\* C7: a candidate longer than the chain, with the chain's origin and one
\* broken link, is refused with InvalidChain and the line printed names
\* the position of the block whose link is broken.
C7_BrokenLinkReported ==
    IsReplace /\ SameOrigin(pre, Offered) /\ Len(Offered) > Len(pre) =>
        \A k \in 2 .. Len(Offered) :
            OneBrokenLink(Offered, k) =>
                /\ result = "InvalidChain"
                /\ stdout = << "Invalid block detected with index "
                               \o Display(Offered[k].index) \o "!",
                               "Invalid replacement chain" >>

\* C8: after add_block(p) returns Ok on a chain of N blocks the chain has
\* N + 1 blocks, its last block carries p, and that block passes
\* is_block_valid against the block that was last.
C8_AppendMonotonic ==
    IsAddBlock /\ result = "Ok" =>
        /\ Len(blocks) = Len(pre) + 1
        /\ blocks[Len(blocks)].payload = call.payload
        /\ is_block_valid(pre[Len(pre)], blocks[Len(blocks)])

\* add_block returned Ok on a chain of two blocks
C8_Witness ==
    /\ IsAddBlock
    /\ result = "Ok"
    /\ Len(pre) = 2
    /\ Len(blocks) = 3

\* C9: after add_block returns Ok on a chain of N blocks, the first N
\* blocks of the chain are the blocks it held, in order and in every field.
C9_AppendOnly ==
    IsAddBlock /\ result = "Ok" =>
        /\ Len(blocks) >= Len(pre)
        /\ SubSeq(blocks, 1, Len(pre)) = pre

\* add_block returned Ok on a chain that replace had adopted
C9_Witness ==
    /\ IsAddBlock
    /\ result = "Ok"
    /\ Len(pre) >= 2
    /\ pre[Len(pre)].payload = "q"
    /\ blocks # pre

\* C10 as stated: after add_block or replace returns Ok the first block of
\* the chain is the first block it had before, in every field.
C10_SameFirstBlock ==
    (IsAddBlock \/ IsReplace) /\ result = "Ok" => blocks[1] = pre[1]

\* C10 as amended: after add_block returns Ok the first block is the first
\* block the chain had before; after replace returns Ok the first block has
\* the re-derived fingerprint of the first block the chain had before.
C10_SameOriginFingerprint ==
    /\ IsAddBlock /\ result = "Ok" => blocks[1] = pre[1]
    /\ IsReplace /\ result = "Ok" => block_hash(blocks[1]) = block_hash(pre[1])

\* replace returned Ok and the first block is another block
C10_Witness ==
    /\ IsReplace
    /\ result = "Ok"
    /\ blocks[1] # pre[1]

\* C12: the chain holds at least one block, in every state reached from
\* Blockchain::new by add_block and replace, whatever replace is offered.
C12_NeverEmpty == Len(blocks) >= 1

\* replace was offered a chain of no blocks and refused it
C12_Witness ==
    /\ IsReplace
    /\ Offered = <<>>
    /\ result = "InvalidChain"
    /\ stdout = <<"Missing new chain origin!", "Invalid replacement chain">>
    /\ Len(blocks) >= 1

\* C13: every call of add_block returns Ok; it neither returns
\* InvalidBlock nor fails in any other way.
C13_AddBlockAlwaysOk == IsAddBlock => result = "Ok"

\* C14: no call of add_block unwinds, and the block a successful add_block
\* builds has the position of the block before it plus 1 and its timestamp
\* plus 10.
C14_NoPanicNoWrap ==
    IsAddBlock =>
        /\ result # "panic"
        /\ result = "Ok" =>
             /\ blocks[Len(blocks)].index = plain_add(pre[Len(pre)].index, 1)
             /\ blocks[Len(blocks)].timestamp = plain_add(pre[Len(pre)].timestamp, 10)

\* C16: Blockchain::new holds exactly the block it was given, stored
\* fingerprint included; the block the first add_block adds carries that
\* stored fingerprint as its previous fingerprint; and on the genesis of
\* run(), add_block("Second block baby!") returns Ok and leaves two
\* blocks, the second at position 1 with previous fingerprint "".
C16_GenesisAsGiven ==
    /\ call.fn = "new" => blocks = <<call.genesis_block>>
    /\ IsAddBlock /\ Len(pre) = 1 /\ result = "Ok"
         => (blocks[1] = pre[1] /\ blocks[2].prev_hash = pre[1].hash)
    /\ IsAddBlock /\ pre = <<RunGenesis>> /\ call.payload = "Second block baby!"
         => /\ result = "Ok"
            /\ Len(blocks) = 2
            /\ blocks[1] = RunGenesis
            /\ blocks[2].index = U32(1)
            /\ blocks[2].prev_hash = ""

\* run(): add_block("Second block baby!") was called on the chain of the
\* genesis with the empty fingerprint
C16_Witness ==
    /\ IsAddBlock
    /\ pre = <<RunGenesis>>
    /\ call.payload = "Second block baby!"
    /\ Len(blocks) = 2
    /\ blocks[1].hash = ""
    /\ blocks[1].hash # block_hash(blocks[1])

\* C17 as stated: along the held chain no block has a timestamp below
\* that of the block before it.
C17_TimestampsNonDecreasing ==
    \A i \in 2 .. Len(blocks) : ~ limbs_gt(blocks[i - 1].timestamp, blocks[i].timestamp)

\* C17 as amended: the block a successful add_block adds has the timestamp
\* of the block before it plus 10 modulo 2^32, and the timestamps of the
\* blocks held before are unchanged.
C17_AppendAdvancesTimestamp ==
    IsAddBlock /\ result = "Ok" =>
        /\ Len(blocks) = Len(pre) + 1
        /\ blocks[Len(blocks)].timestamp = wrapping_add(pre[Len(pre)].timestamp, 10)
        /\ \A i \in 1 .. Len(pre) : blocks[i].timestamp = pre[i].timestamp

\* add_block returned Ok on a chain whose timestamps decrease, adopted by
\* replace
C17_Witness ==
    /\ IsAddBlock
    /\ result = "Ok"
    /\ Len(pre) = 2
    /\ limbs_gt(pre[1].timestamp, pre[2].timestamp)
    /\ Len(blocks) = 3

\* C18: a step never shortens the chain: add_block returning Ok adds one
\* block, replace returning Ok adds at least one, and a call that does not
\* return Ok leaves the length as it was.
C18_LengthNeverDecreases ==
    [][ /\ Len(blocks') >= Len(blocks)
        /\ call'.fn = "add_block" /\ result' = "Ok" => Len(blocks') = Len(blocks) + 1
        /\ call'.fn = "replace" /\ result' = "Ok" => Len(blocks') >= Len(blocks) + 1
        /\ result' # "Ok" => Len(blocks') = Len(blocks) ]_vars

\* replace returned Ok and the chain grew by two blocks
C18_Witness ==
    /\ IsReplace
    /\ result = "Ok"
    /\ Len(blocks) = Len(pre) + 2

(***************************************************************************)
(* calc_hash on its own                                                    *)
(***************************************************************************)
\* Arguments calc_hash is called with.  "1" "10" and "11" "0" print as the
\* same digits, "" "ab" and "a" "b" as the same text, and "ab" and "ac"
\* differ in one character.
HashIndexes == {U32(1), U32(11), U32_MAX}
HashTimestamps == {U32(0), U32(10), U32(7)}
HashPrevHashes == {"", "a"}
HashPayloads == {"b", "ab", "ac"}

\* No chain is held.  `call` is the last call of calc_hash with its four
\* arguments, `result` the digest it returned, and `pre` holds the call
\* made before it with its digest.
HashInit ==
    /\ blocks = <<>>
    /\ overflow_checks = FALSE
    /\ call = [fn |-> "none"]
    /\ pre = <<>>
    /\ result = ""
    /\ stdout = <<>>

calc_hash_call(index, timestamp, prev_hash, payload) ==
    /\ call' = [fn |-> "calc_hash", index |-> index, timestamp |-> timestamp,
                prev_hash |-> prev_hash, payload |-> payload]
    /\ result' = calc_hash(index, timestamp, prev_hash, payload)
    /\ pre' = IF call.fn = "calc_hash" THEN <<[call |-> call, result |-> result]>> ELSE <<>>
    /\ UNCHANGED <<blocks, overflow_checks, stdout>>

HashNext ==
    \E index \in HashIndexes, timestamp \in HashTimestamps,
       prev_hash \in HashPrevHashes, payload \in HashPayloads :
        calc_hash_call(index, timestamp, prev_hash, payload)

HashSpec == HashInit /\ [][HashNext]_vars

\* calc_hash has been called twice
TwoHashes == call.fn = "calc_hash" /\ Len(pre) = 1

\* the fields in which the arguments of the two calls differ
DifferingFields ==
    { f \in {"index", "timestamp", "prev_hash", "payload"} : call[f] # pre[1].call[f] }

\* C11 as stated: two calls of calc_hash whose arguments differ in any
\* field return different fingerprints, and two calls with the same
\* arguments return the same fingerprint.
C11_DifferentFieldsDifferentHash ==
    TwoHashes => (DifferingFields # {} <=> result # pre[1].result)

\* C11 as amended: two calls of calc_hash whose arguments differ in
\* exactly one field return different fingerprints, and two calls with the
\* same arguments return the same fingerprint.
C11_OneFieldChangeDetected ==
    TwoHashes =>
        /\ Cardinality(DifferingFields) = 1 => result # pre[1].result
        /\ DifferingFields = {} => result = pre[1].result

\* the payloads of the two calls are "ab" and "ac", the other arguments
\* are the same, and the fingerprints differ
C11_Witness ==
    /\ TwoHashes
    /\ DifferingFields = {"payload"}
    /\ {call.payload, pre[1].call.payload} = {"ab", "ac"}
    /\ result # pre[1].result

(***************************************************************************)
(* is_block_valid on its own                                               *)
(***************************************************************************)
\* Blocks is_block_valid is given as prev_block: the blocks of the chains
\* built by Block::new on a genesis block or on the block that prints as
\* HashedGenesis does.
PrevBlocks ==
    UNION { UNION { { chain[i] : i \in 1 .. Len(chain) } : chain \in Forks(origin) } :
            origin \in GenesisBlocks \cup {Resplit(HashedGenesis)} }

\* Blocks it is given as new_block after prev_block: the block Block::new
\* builds on it, and the altered ones
NewBlocks(prev_block) == {Block_new(prev_block, "p")} \cup Alterations(<<prev_block>>)

\* No chain is held.  `call` is the last call of is_block_valid with its
\* two arguments and `result` what it returned ("true", "false"), or
\* "panic" if it unwound.
ValidInit ==
    /\ blocks = <<>>
    /\ overflow_checks \in BOOLEAN
    /\ call = [fn |-> "none"]
    /\ pre = <<>>
    /\ result = ""
    /\ stdout = <<>>

is_block_valid_call(prev_block, new_block) ==
    /\ Running
    /\ call' = [fn |-> "is_block_valid", prev_block |-> prev_block, new_block |-> new_block]
    /\ result' = IF is_block_valid_panics(prev_block) THEN "panic"
                 ELSE IF is_block_valid(prev_block, new_block) THEN "true"
                 ELSE "false"
    /\ UNCHANGED <<blocks, overflow_checks, pre, stdout>>

ValidNext ==
    \E prev_block \in PrevBlocks :
        \E new_block \in NewBlocks(prev_block) : is_block_valid_call(prev_block, new_block)

ValidSpec == ValidInit /\ [][ValidNext]_vars

\* C15: is_block_valid returns false if and only if the new block's
\* position is not the previous block's plus one, or its previous
\* fingerprint is not the previous block's stored fingerprint, or its
\* stored fingerprint is not the one its four fields give; it returns true
\* otherwise, whatever the timestamps are.
C15_FalseIffOneOfThree ==
    call.fn = "is_block_valid" =>
        LET prev == call.prev_block
            new  == call.new_block
            fails == \/ new.index # plain_add(prev.index, 1)
                     \/ new.prev_hash # prev.hash
                     \/ block_hash(new) # new.hash
        IN  /\ result = "false" <=> fails
            /\ result = "true" <=> ~ fails

====
